---- MODULE Spec2Model ----
(***************************************************************************)
(* Model of the recommendation notebooks of zheng-da/DGL-tutorial:         *)
(*   advanced_apps/rec/process_movielens.ipynb   (data split, negatives)   *)
(*   advanced_apps/rec/Recommendation.ipynb      (session edges, GNN loss, *)
(*                                                kNN evaluation)          *)
(*   advanced_apps/rec/Recommendation-fism.ipynb (FISM loss)               *)
(* Each notebook is a sequential script; each gets its own specification   *)
(* over its own group of variables, the other groups staying idle.         *)
(***************************************************************************)
EXTENDS Integers, Sequences, FiniteSets, TLC

(***************************************************************************)
(* Bounds of the model.                                                    *)
(***************************************************************************)
NumUsers == 2
NumMovies == 5
MaxNnz == 4
NegSampleSize == 2
NumSessions == 2
NumItems == 3
MaxTestEvents == 3
MaxTrainEvents == 2
MaxWeight == 2
MaxBatch == 2
MaxEmb == 1
MaxRating == 1
NumKnnItems == 4
MaxKnnEmb == 3
MaxPairs == 2
HitsCutoff == 3
MaxK == 2
MaxEvalRating == 6
PositivePenalty == 10
MaxEpochs == 2
MaxEdges == 4
MaxBatchSize == 3

Users == 0 .. (NumUsers - 1)
Movies == 0 .. (NumMovies - 1)
Sessions == 0 .. (NumSessions - 1)
Items == 0 .. (NumItems - 1)

(***************************************************************************)
(* State of process_movielens.ipynb                                        *)
(***************************************************************************)
VARIABLES
    pc,                   \* the cell of process_movielens that runs next
    user_movie_spm,       \* user_movie_spm (COO): entries <<row, col>> in storage order;
                          \* the loaded matrix, then the training matrix of pick_test
    orig_user_movie_spm,  \* orig_user_movie_spm (CSR): user -> set of movies
    valid_set,            \* valid_set[i]
    test_set,             \* test_set[i]
    train_map,            \* keys of train_map
    valid_map,            \* keys of valid_map
    test_map,             \* keys of test_map
    neg_user,             \* gen_neg_set: loop variable user
    movie_set,            \* gen_neg_set: movie_set of the current user
    neg_mat,              \* gen_neg_set: neg_mat rows filled so far
    neg_valid,            \* neg_valid
    neg_test,             \* neg_test
    gen_assert_failed,    \* an assertion of gen_neg_set failed
    save_assert_failed    \* an assertion of the save loops failed

splitVars == <<pc, user_movie_spm, orig_user_movie_spm, valid_set, test_set,
               train_map, valid_map, test_map, neg_user, movie_set, neg_mat,
               neg_valid, neg_test, gen_assert_failed, save_assert_failed>>

(***************************************************************************)
(* State of Recommendation.ipynb: session edges and the test split         *)
(***************************************************************************)
VARIABLES
    epc,               \* the cell of Recommendation.ipynb that runs next
    data,              \* the frame construct_edges was last called with
    test_query,        \* test_query
    test_truth,        \* test_truth
    train_query,       \* train_query
    train_truth,       \* train_truth
    loss_spm,          \* loss_spm (CSR): <<query, truth>> -> stored value
    not_in_train,      \* not_in_train
    test_query_easy,
    test_truth_easy,
    test_query_hard,
    test_truth_hard

edgeVars == <<epc, data, test_query, test_truth, train_query, train_truth, loss_spm,
              not_in_train, test_query_easy, test_truth_easy, test_query_hard,
              test_truth_hard>>

(***************************************************************************)
(* State of Recommendation.ipynb: GNNRec.forward on one sampled batch      *)
(***************************************************************************)
VARIABLES
    lpc,               \* the step of the training loop body that runs next
    emb,               \* emb: the embedding of every item
    pos_g,             \* pos_subg: the edges <<src, dst>> in eid order
    neg_g,             \* neg_subg: the edges <<src, dst>> in eid order
    false_neg,         \* neg_g.edata['false_neg']
    mask,              \* mask of GNNRec.forward
    neg_loss,          \* what each negative adds to the returned loss
    loss,              \* the value GNNRec.forward returns
    verify_failed      \* an assertion of verify_neg failed

lossVars == <<lpc, emb, pos_g, neg_g, false_neg, mask, neg_loss, loss, verify_failed>>

(***************************************************************************)
(* State of Recommendation-fism.ipynb: FISM.forward                        *)
(***************************************************************************)
VARIABLES
    fpc,               \* the step of the FISM training loop body that runs next
    r,                 \* r of FISM.forward: tensor of shape (batch_size,)
    r_neg,             \* r_neg as FISMrating.forward returns it: (batch_size, n_negs)
    fism_terms,        \* the (positive, negative) entries the loss sums over
    fism_loss          \* the value FISM.forward returns

fismVars == <<fpc, r, r_neg, fism_terms, fism_loss>>

(***************************************************************************)
(* State of Recommendation.ipynb: knnEvaluate                              *)
(***************************************************************************)
VARIABLES
    kpc,               \* whether knnEvaluate has run
    score_fn,          \* score_fn: "dot_score" or "cosine_similarity"
    knn_data,          \* data: the embedding of every item
    query_eval,        \* query_eval
    item_eval,         \* item_eval
    knn_counted,       \* per pair, the items with query_scores >= truth_scores
    knn_hits,          \* the number of pairs with fewer than 3 such items
    knn_pairs          \* the number of pairs; the result is knn_hits / knn_pairs

knnVars == <<kpc, score_fn, knn_data, query_eval, item_eval, knn_counted, knn_hits,
             knn_pairs>>

(***************************************************************************)
(* State of Recommendation-fism.ipynb: RecEval                             *)
(***************************************************************************)
VARIABLES
    rpc,               \* whether RecEval has run
    rec_k,             \* k
    rec_r,             \* r as FISMrating.forward returns it: shape (batch_size,)
    rec_neg_r,         \* r_neg as FISMrating.forward returns it: (batch_size, n_negs)
    rec_counts,        \* torch.sum(neg_r >= r, 1)
    rec_hits           \* the number of True in hits; the result is rec_hits / len(hits)

recVars == <<rpc, rec_k, rec_r, rec_neg_r, rec_counts, rec_hits>>

(***************************************************************************)
(* State of Recommendation-fism.ipynb: RecEvalAll                          *)
(***************************************************************************)
VARIABLES
    apc,               \* whether RecEvalAll has run
    all_k,             \* k
    all_train,         \* user_item_spm: user -> set of items
    items_valid,       \* items_valid[u], users_valid being 0 .. num_users - 1
    items_test,        \* items_test[u], users_test being 0 .. num_users - 1
    all_items_eval,    \* items_eval
    all_rating,        \* the estimated rating of every (user, item)
    all_counted,       \* per user, the items with neg_r >= r
    all_hits           \* the number of True in hits

allVars == <<apc, all_k, all_train, items_valid, items_test, all_items_eval,
             all_rating, all_counted, all_hits>>

(***************************************************************************)
(* State of Recommendation-fism.ipynb: the training loop                   *)
(***************************************************************************)
VARIABLES
    tpc,               \* the statement of the training cell that runs next
    n_epochs,          \* n_epochs
    nnz,               \* user_item_spm.nnz
    batch_size,        \* batch_size
    epoch,             \* epoch
    batches,           \* EdgeSampler.batches: the edge ids of every batch
    sampler_idx,       \* EdgeSampler.idx
    losses,            \* len(losses)
    n_forward,         \* calls of model(I, U, I_neg, I_U, N_U) so far
    n_zero_grad,       \* calls of optimizer.zero_grad() so far
    n_backward,        \* calls of loss.backward() so far
    n_steps,           \* calls of optimizer.step() so far
    n_samplers,        \* EdgeSampler objects created so far
    n_valid,           \* validation runs (RecEval and RecEvalAll) so far
    n_test             \* test evaluations so far

trainVars == <<tpc, n_epochs, nnz, batch_size, epoch, batches, sampler_idx, losses,
               n_forward, n_zero_grad, n_backward, n_steps, n_samplers, n_valid, n_test>>

vars == <<splitVars, edgeVars, lossVars, fismVars, knnVars, recVars, allVars, trainVars>>

notSplitVars == <<edgeVars, lossVars, fismVars, knnVars, recVars, allVars, trainVars>>
notEdgeVars == <<splitVars, lossVars, fismVars, knnVars, recVars, allVars, trainVars>>
notLossVars == <<splitVars, edgeVars, fismVars, knnVars, recVars, allVars, trainVars>>
notFismVars == <<splitVars, edgeVars, lossVars, knnVars, recVars, allVars, trainVars>>
notKnnVars == <<splitVars, edgeVars, lossVars, fismVars, recVars, allVars, trainVars>>
notRecVars == <<splitVars, edgeVars, lossVars, fismVars, knnVars, allVars, trainVars>>
notAllVars == <<splitVars, edgeVars, lossVars, fismVars, knnVars, recVars, trainVars>>
notTrainVars == <<splitVars, edgeVars, lossVars, fismVars, knnVars, recVars, allVars>>

(***************************************************************************)
(* Generic helpers.                                                        *)
(***************************************************************************)
RECURSIVE SumSeq(_)
SumSeq(s) == IF s = << >> THEN 0 ELSE Head(s) + SumSeq(Tail(s))

RECURSIVE SetToSortedSeq(_)
SetToSortedSeq(S) ==
    IF S = {} THEN << >>
    ELSE LET m == CHOOSE x \in S : \A y \in S : x <= y
         IN  <<m>> \o SetToSortedSeq(S \ {m})

SeqRange(s) == { s[i] : i \in 1 .. Len(s) }

IsInjective(s) == \A i, j \in 1 .. Len(s) : i # j => s[i] # s[j]

\* The entries of s at the positions where keep holds, in order (numpy boolean
\* mask indexing a[mask]).
RECURSIVE MaskSelect(_, _)
MaskSelect(s, keep) ==
    IF s = << >> THEN << >>
    ELSE (IF Head(keep) THEN <<Head(s)>> ELSE << >>)
         \o MaskSelect(Tail(s), Tail(keep))

(***************************************************************************)
(* process_movielens.ipynb                                                 *)
(***************************************************************************)
\* spsp.coo_matrix(...).tocsr(): the rows of the matrix as sets of columns.
CooToCsr(coo) ==
    [u \in Users |-> { coo[k][2] : k \in { j \in 1 .. Len(coo) : coo[j][1] = u } }]

\* csr.indptr[i], as a 0-based offset: the number of stored entries of rows < i.
RECURSIVE Indptr(_, _)
Indptr(csr, i) ==
    IF i = 0 THEN 0 ELSE Indptr(csr, i - 1) + Cardinality(csr[i - 1])

\* The COO matrices the notebook may be given: no entry twice, every user with
\* at least the two interactions pick_test draws, in any storage order.
CooInputs ==
    { s \in UNION { [1 .. n -> Users \X Movies] : n \in (2 * NumUsers) .. MaxNnz } :
        /\ IsInjective(s)
        /\ \A u \in Users : Cardinality({ k \in 1 .. Len(s) : s[k][1] = u }) >= 2 }

\* np.random.choice(np.arange(start_idx, end_idx), 2, replace=False), for every
\* row i: two distinct positions of [indptr[i], indptr[i+1]).
PickChoices(csr) ==
    { ch \in [Users -> (0 .. (MaxNnz - 1)) \X (0 .. (MaxNnz - 1))] :
        \A i \in Users :
            /\ ch[i][1] # ch[i][2]
            /\ ch[i][1] \in Indptr(csr, i) .. (Indptr(csr, i + 1) - 1)
            /\ ch[i][2] \in Indptr(csr, i) .. (Indptr(csr, i + 1) - 1) }

\* movies[idx]: the column array of the COO input, read at a 0-based position.
MoviesAt(coo, idx) == coo[idx + 1][2]

\* pick_test(user_movie_spm) with the random choices ch.
pick_test(coo, ch) ==
    LET picked == { ch[i][1] : i \in Users } \cup { ch[i][2] : i \in Users }
        keep == [k \in 1 .. Len(coo) |-> (k - 1) \notin picked]
    IN  [ train |-> MaskSelect(coo, keep),
          valid |-> [i \in Users |-> MoviesAt(coo, ch[i][1])],
          test  |-> [i \in Users |-> MoviesAt(coo, ch[i][2])] ]

PickTest ==
    /\ pc = "pick_test"
    /\ \E ch \in PickChoices(CooToCsr(user_movie_spm)) :
          LET res == pick_test(user_movie_spm, ch)
          IN  /\ user_movie_spm' = res.train
              /\ valid_set' = res.valid
              /\ test_set' = res.test
    /\ pc' = "save_split"
    /\ UNCHANGED <<orig_user_movie_spm, train_map, valid_map, test_map,
                   neg_user, movie_set, neg_mat, neg_valid, neg_test,
                   gen_assert_failed, save_assert_failed>>
    /\ UNCHANGED notSplitVars

\* The cell that writes train.txt, valid.txt and test.txt and fills the maps.
SaveSplit ==
    /\ pc = "save_split"
    /\ train_map' = SeqRange(user_movie_spm)
    /\ valid_map' = { <<row, valid_set[row]>> : row \in Users }
    /\ test_map' = { <<row, test_set[row]>> : row \in Users }
    /\ pc' = "gen_neg_valid"
    /\ UNCHANGED <<user_movie_spm, orig_user_movie_spm, valid_set, test_set,
                   neg_user, movie_set, neg_mat, neg_valid, neg_test,
                   gen_assert_failed, save_assert_failed>>
    /\ UNCHANGED notSplitVars

\* np.random.choice(num_movies, neg_sample_size, replace=False)
NegDraws ==
    { s \in [1 .. NegSampleSize -> Movies] : IsInjective(s) }

\* if user_movie_spm[user, movie] == 0
IsNegativeNoCheck(spm, user, movie) == TRUE

IsNegative(spm, user, movie) == movie \notin spm[user]

\* for movie in movies: add the negatives, break once the set is full.
RECURSIVE AddNegatives(_, _, _, _)
AddNegatives(spm, user, mset, movies) ==
    IF movies = << >> THEN mset
    ELSE LET added == IF IsNegative(spm, user, Head(movies))
                      THEN mset \cup {Head(movies)} ELSE mset
         IN  IF Cardinality(added) = NegSampleSize THEN added
             ELSE AddNegatives(spm, user, added, Tail(movies))

\* One iteration of the while loop of gen_neg_set for the current user; the row
\* of neg_mat is stored when the loop ends.
GenNegDraw ==
    /\ pc \in {"gen_neg_valid", "gen_neg_test"}
    /\ neg_user < NumUsers
    /\ Cardinality(movie_set) < NegSampleSize
    /\ \E movies \in NegDraws :
          LET mset == AddNegatives(orig_user_movie_spm, neg_user, movie_set, movies)
          IN  IF Cardinality(mset) < NegSampleSize
              THEN /\ movie_set' = mset
                   /\ UNCHANGED <<neg_user, neg_mat>>
              ELSE /\ neg_mat' = [neg_mat EXCEPT ![neg_user] = SetToSortedSeq(mset)]
                   /\ neg_user' = neg_user + 1
                   /\ movie_set' = {}
    /\ UNCHANGED <<pc, user_movie_spm, orig_user_movie_spm, valid_set, test_set,
                   train_map, valid_map, test_map, neg_valid, neg_test,
                   gen_assert_failed, save_assert_failed>>
    /\ UNCHANGED notSplitVars

\* The assertion loop of gen_neg_set and its return.
GenNegAssertsHold(spm, mat) ==
    \A user \in Users : \A idx \in 1 .. Len(mat[user]) : mat[user][idx] \notin spm[user]

EmptyNegMat == [u \in Users |-> << >>]

GenNegReturn ==
    /\ pc \in {"gen_neg_valid", "gen_neg_test"}
    /\ neg_user = NumUsers
    /\ ~gen_assert_failed
    /\ IF GenNegAssertsHold(orig_user_movie_spm, neg_mat)
       THEN /\ IF pc = "gen_neg_valid"
               THEN neg_valid' = neg_mat /\ UNCHANGED neg_test
               ELSE neg_test' = neg_mat /\ UNCHANGED neg_valid
            /\ pc' = IF pc = "gen_neg_valid" THEN "gen_neg_test" ELSE "save_neg"
            /\ neg_user' = 0
            /\ neg_mat' = EmptyNegMat
            /\ UNCHANGED gen_assert_failed
       ELSE /\ gen_assert_failed' = TRUE
            /\ UNCHANGED <<pc, neg_user, neg_mat, neg_valid, neg_test>>
    /\ UNCHANGED <<user_movie_spm, orig_user_movie_spm, valid_set, test_set,
                   train_map, valid_map, test_map, movie_set, save_assert_failed>>
    /\ UNCHANGED notSplitVars

\* The pairs (row, col) the save loops iterate over.
NegPairs(mat) ==
    { <<row, mat[row][idx]>> : row \in Users, idx \in 1 .. NegSampleSize }

\* The cell that writes neg_valid.txt and neg_test.txt under its assertions.
SaveNeg ==
    /\ pc = "save_neg"
    /\ save_assert_failed' =
          (\E p \in NegPairs(neg_valid) \cup NegPairs(neg_test) :
              p \in train_map \/ p \in valid_map \/ p \in test_map)
    /\ pc' = "done"
    /\ UNCHANGED <<user_movie_spm, orig_user_movie_spm, valid_set, test_set,
                   train_map, valid_map, test_map, neg_user, movie_set, neg_mat,
                   neg_valid, neg_test, gen_assert_failed>>
    /\ UNCHANGED notSplitVars

NoPick == [u \in Users |-> 0]

InitSplit ==
    /\ pc = "pick_test"
    /\ user_movie_spm \in CooInputs
    /\ orig_user_movie_spm = CooToCsr(user_movie_spm)
    /\ valid_set = NoPick
    /\ test_set = NoPick
    /\ train_map = {}
    /\ valid_map = {}
    /\ test_map = {}
    /\ neg_user = 0
    /\ movie_set = {}
    /\ neg_mat = EmptyNegMat
    /\ neg_valid = EmptyNegMat
    /\ neg_test = EmptyNegMat
    /\ gen_assert_failed = FALSE
    /\ save_assert_failed = FALSE

\* gen_neg_set called on its own: any matrix whose users have two interactions
\* or more (the function reads the CSR matrix only).
InitNeg ==
    /\ pc = "gen_neg_valid"
    /\ orig_user_movie_spm \in [Users -> { S \in SUBSET Movies : Cardinality(S) >= 2 }]
    /\ user_movie_spm = << >>
    /\ valid_set = NoPick
    /\ test_set = NoPick
    /\ train_map = {}
    /\ valid_map = {}
    /\ test_map = {}
    /\ neg_user = 0
    /\ movie_set = {}
    /\ neg_mat = EmptyNegMat
    /\ neg_valid = EmptyNegMat
    /\ neg_test = EmptyNegMat
    /\ gen_assert_failed = FALSE
    /\ save_assert_failed = FALSE

\* C1: pick_test gives every user i a validation item valid_set[i] and a test
\* item test_set[i] that are movies user i interacted with in the input
\* matrix, whatever the storage order of the COO entries.
C1_PicksAreOwnInteractions ==
    pc = "save_split" =>
        \A i \in Users :
            /\ valid_set[i] \in orig_user_movie_spm[i]
            /\ test_set[i] \in orig_user_movie_spm[i]

\* A row of neg_mat as gen_neg_set promises it: neg_sample_size pairwise
\* distinct movies, none of them an interaction of the user.
NegRowOk(spm, user, row) ==
    /\ Len(row) = NegSampleSize
    /\ IsInjective(row)
    /\ \A idx \in 1 .. Len(row) : row[idx] \in Movies /\ row[idx] \notin spm[user]

\* C2: every row gen_neg_set has filled, and every row of a matrix it has
\* returned, holds exactly neg_sample_size pairwise distinct movies the user
\* did not interact with, and the assertion of gen_neg_set never fails.
C2_NegRowsAreDistinctNegatives ==
    /\ ~gen_assert_failed
    /\ \A u \in Users : u < neg_user => NegRowOk(orig_user_movie_spm, u, neg_mat[u])
    /\ pc \in {"gen_neg_test", "save_neg", "done"} =>
          \A u \in Users : NegRowOk(orig_user_movie_spm, u, neg_valid[u])
    /\ pc \in {"save_neg", "done"} =>
          \A u \in Users : NegRowOk(orig_user_movie_spm, u, neg_test[u])

\* Both calls of gen_neg_set have returned, with different draws, and every
\* user has interactions the draws had to reject.
C2_Witness ==
    /\ pc = "save_neg"
    /\ neg_valid # neg_test
    /\ \A u \in Users : /\ Cardinality(orig_user_movie_spm[u]) >= 2
                        /\ Len(neg_valid[u]) = NegSampleSize
                        /\ Len(neg_test[u]) = NegSampleSize

\* C3: after pick_test and gen_neg_set on the original matrix, the three
\* assertions of the save loops never fail: no negative pair is a training,
\* validation or test pair.
C3_SaveAssertionsHold ==
    pc = "done" =>
        /\ ~save_assert_failed
        /\ (NegPairs(neg_valid) \cup NegPairs(neg_test))
               \cap (train_map \cup valid_map \cup test_map) = {}

(***************************************************************************)
(* Recommendation.ipynb: session edges and the easy/hard test split        *)
(***************************************************************************)

\* The frames pd.read_csv may return: rows of visitorid, timestamp, itemid in
\* any file order, the timestamps distinct.
Frames(maxLen) ==
    UNION { { s \in [1 .. n -> [visitorid : Sessions, timestamp : 1 .. n, itemid : Items]] :
                \A i, j \in 1 .. n : i # j => s[i].timestamp # s[j].timestamp }
            : n \in 1 .. maxLen }

\* The sort key of sort_values(by=['visitorid', 'timestamp']).
KeyLeq(a, b) ==
    \/ a.visitorid < b.visitorid
    \/ a.visitorid = b.visitorid /\ a.timestamp <= b.timestamp

\* The place of one row in the sorted frame (rows of equal key keep their order).
RECURSIVE InsertSorted(_, _)
InsertSorted(s, row) ==
    IF s = << >> THEN <<row>>
    ELSE IF KeyLeq(Head(s), row) THEN <<Head(s)>> \o InsertSorted(Tail(s), row)
    ELSE <<row>> \o s

\* data.sort_values(by=['visitorid', 'timestamp'])
RECURSIVE sort_values(_)
sort_values(df) ==
    IF df = << >> THEN << >>
    ELSE InsertSorted(sort_values(SubSeq(df, 1, Len(df) - 1)), df[Len(df)])

\* spm.shape[0] of the COO matrix built without a shape: the largest row + 1.
NumRows(df) ==
    1 + CHOOSE m \in Sessions :
            /\ \E k \in 1 .. Len(df) : df[k].visitorid = m
            /\ \A k \in 1 .. Len(df) : df[k].visitorid <= m

\* spm[i].indices after coo_matrix(...).tocsr(): tocsr sums the duplicate
\* entries, which leaves the column indices of a row distinct and ascending.
RowIndices(df, i) ==
    SetToSortedSeq({ df[k].itemid : k \in { j \in 1 .. Len(df) : df[j].visitorid = i } })

\* The inner loop of construct_edges over one row: <<indices[t], indices[t+1]>>.
RowPairs(indices) ==
    [t \in 1 .. (IF Len(indices) = 0 THEN 0 ELSE Len(indices) - 1)
        |-> <<indices[t], indices[t + 1]>>]

RECURSIVE EdgesOfRows(_, _, _)
EdgesOfRows(df, i, n) ==
    IF i = n THEN << >>
    ELSE RowPairs(RowIndices(df, i)) \o EdgesOfRows(df, i + 1, n)

\* construct_edges(data): the pairs <<query[k], truth[k]>>.
construct_edges(df) ==
    LET sorted == sort_values(df)
    IN  EdgesOfRows(sorted, 0, NumRows(sorted))

QueryOf(pairs) == [k \in 1 .. Len(pairs) |-> pairs[k][1]]
TruthOf(pairs) == [k \in 1 .. Len(pairs) |-> pairs[k][2]]

\* test_query, test_truth = construct_edges(test_data)
ConstructTestEdges ==
    /\ epc = "test_edges"
    /\ \E df \in Frames(MaxTestEvents) :
          /\ data' = df
          /\ test_query' = QueryOf(construct_edges(df))
          /\ test_truth' = TruthOf(construct_edges(df))
    /\ epc' = "train_edges"
    /\ UNCHANGED <<train_query, train_truth, loss_spm, not_in_train, test_query_easy,
                   test_truth_easy, test_query_hard, test_truth_hard>>
    /\ UNCHANGED notEdgeVars

\* coo_matrix((ones, (train_query, train_truth)), shape=(num_items, num_items))
\* as CSR: the duplicates summed.
LossMatrix(query, truth) ==
    [p \in Items \X Items |->
        Cardinality({ k \in 1 .. Len(query) : <<query[k], truth[k]>> = p })]

\* train_query, train_truth = construct_edges(train_data); loss_spm = ...
ConstructTrainEdges ==
    /\ epc = "train_edges"
    /\ \E df \in Frames(MaxTrainEvents) :
          /\ data' = df
          /\ train_query' = QueryOf(construct_edges(df))
          /\ train_truth' = TruthOf(construct_edges(df))
          /\ loss_spm' = LossMatrix(QueryOf(construct_edges(df)), TruthOf(construct_edges(df)))
    /\ epc' = "split"
    /\ UNCHANGED <<test_query, test_truth, not_in_train, test_query_easy,
                   test_truth_easy, test_query_hard, test_truth_hard>>
    /\ UNCHANGED notEdgeVars

\* loss_spm[test_query, test_truth], one entry
LossAtTransposed(spm, q, t) == spm[<<t, q>>]

LossAt(spm, q, t) == spm[<<q, t>>]

NotSeq(m) == [k \in 1 .. Len(m) |-> ~m[k]]

\* The cell that splits the test pairs into the easy and the hard set.
SplitEasyHard ==
    /\ epc = "split"
    /\ LET nit == [k \in 1 .. Len(test_query) |->
                      LossAt(loss_spm, test_query[k], test_truth[k]) = 0]
       IN  /\ not_in_train' = nit
           /\ test_query_easy' = MaskSelect(test_query, NotSeq(nit))
           /\ test_truth_easy' = MaskSelect(test_truth, NotSeq(nit))
           /\ test_query_hard' = MaskSelect(test_query, nit)
           /\ test_truth_hard' = MaskSelect(test_truth, nit)
    /\ epc' = "done"
    /\ UNCHANGED <<data, test_query, test_truth, train_query, train_truth, loss_spm>>
    /\ UNCHANGED notEdgeVars

EmptyLoss == [p \in Items \X Items |-> 0]

InitEdges ==
    /\ epc = "test_edges"
    /\ data = << >>
    /\ test_query = << >>
    /\ test_truth = << >>
    /\ train_query = << >>
    /\ train_truth = << >>
    /\ loss_spm = EmptyLoss
    /\ not_in_train = << >>
    /\ test_query_easy = << >>
    /\ test_truth_easy = << >>
    /\ test_query_hard = << >>
    /\ test_truth_hard = << >>

\* The items of session i in the order of their timestamps.
SessionItems(df, i) ==
    LET ts == SetToSortedSeq({ df[k].timestamp : k \in { j \in 1 .. Len(df) : df[j].visitorid = i } })
    IN  [n \in 1 .. Len(ts) |->
            df[CHOOSE k \in 1 .. Len(df) : df[k].timestamp = ts[n]].itemid]

\* How many times the pair p is (previous item, next item) in session i.
FollowsCount(df, i, p) ==
    LET its == SessionItems(df, i)
    IN  Cardinality({ n \in 1 .. Len(its) : n < Len(its) /\ <<its[n], its[n + 1]>> = p })

RECURSIVE SumOver(_, _)
SumOver(f, S) ==
    IF S = {} THEN 0
    ELSE LET x == CHOOSE y \in S : TRUE IN f[x] + SumOver(f, S \ {x})

PairCount(query, truth, p) ==
    Cardinality({ k \in 1 .. Len(query) : <<query[k], truth[k]>> = p })

\* C4: the lists construct_edges returns hold one (query, truth) pair for each
\* two items that are consecutive in a session's timestamp order, query the
\* previous item and truth the item that follows it.
C4_EdgesFollowSessionOrder ==
    /\ epc = "train_edges" =>
          \A p \in Items \X Items :
              PairCount(test_query, test_truth, p)
                  = SumOver([i \in Sessions |-> FollowsCount(data, i, p)], Sessions)
    /\ epc = "split" =>
          \A p \in Items \X Items :
              PairCount(train_query, train_truth, p)
                  = SumOver([i \in Sessions |-> FollowsCount(data, i, p)], Sessions)

\* The pairs of the training loss graph.
TrainEdges == { <<train_query[k], train_truth[k]>> : k \in 1 .. Len(train_query) }

\* C5: every test pair goes to exactly one of the easy and the hard set, to
\* the hard set iff it is no edge of the training loss graph: the sizes add
\* up, and no hard pair is a training pair.
C5_EasyHardPartition ==
    epc = "done" =>
        /\ Len(test_query_easy) = Len(test_truth_easy)
        /\ Len(test_query_hard) = Len(test_truth_hard)
        /\ Len(test_query_easy) + Len(test_query_hard) = Len(test_query)
        /\ \A p \in Items \X Items :
              /\ PairCount(test_query_hard, test_truth_hard, p)
                    = IF p \in TrainEdges THEN 0 ELSE PairCount(test_query, test_truth, p)
              /\ PairCount(test_query_easy, test_truth_easy, p)
                    = IF p \in TrainEdges THEN PairCount(test_query, test_truth, p) ELSE 0

\* The split has run on test pairs of which one is a training edge and one is
\* not.
C5_Witness ==
    /\ epc = "done"
    /\ Len(test_query_easy) >= 1
    /\ Len(test_query_hard) >= 1

(***************************************************************************)
(* Recommendation.ipynb: GNNRec.forward                                    *)
(***************************************************************************)
\* Embeddings are one number per item, in -MaxEmb .. MaxEmb.
EmbVals == (0 - MaxEmb) .. MaxEmb

\* -F.logsigmoid(d) = ln(1 + exp(-d)), in thousandths, for d in -8 .. 8.
NegLogSigmoid(d) ==
    <<8000, 7001, 6002, 5007, 4018, 3049, 2127, 1313, 693,
      313, 127, 49, 18, 7, 2, 1, 0>>[d + 9]

\* The loss graphs construct_edges can produce: an edge goes from an item to
\* one with a larger id, its weight the number of sessions that hold it.
LossGraphs ==
    { g \in [Items \X Items -> 0 .. MaxWeight] :
        /\ \A p \in Items \X Items : p[1] >= p[2] => g[p] = 0
        /\ \E p \in Items \X Items : g[p] > 0 }

GraphEdges(g) == { p \in Items \X Items : g[p] # 0 }

\* One (pos_subg, neg_subg) of dgl.contrib.sampling.EdgeSampler with
\* negative_mode='tail' and return_false_neg=True: a batch of distinct edges
\* of the graph, for each of them neg_sample_size pairs with the edge's source
\* and a drawn destination, and false_neg = 1 on the pairs that are edges.
PosBatches(g) ==
    { b \in UNION { [1 .. n -> GraphEdges(g)] : n \in 1 .. MaxBatch } : IsInjective(b) }

NegTails(n) == [1 .. (n * NegSampleSize) -> Items]

NegEdges(pos, tails) ==
    [m \in 1 .. Len(tails) |-> <<pos[((m - 1) \div NegSampleSize) + 1][1], tails[m]>>]

FalseNeg(g, neg) == [m \in 1 .. Len(neg) |-> IF g[neg[m]] # 0 THEN 1 ELSE 0]

SampleBatch ==
    /\ lpc = "sample"
    /\ \E b \in PosBatches(loss_spm) : \E tails \in NegTails(Len(b)) :
          /\ pos_g' = b
          /\ neg_g' = NegEdges(b, tails)
          /\ false_neg' = FalseNeg(loss_spm, NegEdges(b, tails))
    /\ lpc' = "forward"
    /\ UNCHANGED <<emb, mask, neg_loss, loss, verify_failed>>
    /\ UNCHANGED notLossVars

\* score_func(g, emb): the dot product of the embeddings of every edge's ends.
score_func(g, e) == [k \in 1 .. Len(g) |-> e[g[k][1]] * e[g[k][2]]]

\* The two assertions of verify_neg(neg_g).
verify_neg(spm, neg, fneg) ==
    /\ \A m \in 1 .. Len(neg) : fneg[m] = 0 => spm[neg[m]] = 0
    /\ \A m \in 1 .. Len(neg) : fneg[m] = 1 => spm[neg[m]] # 0

\* mask = (1 - neg_g.edata['false_neg'])
MaskAllOnes(fneg) == [m \in 1 .. Len(fneg) |-> 1]

Mask(fneg) == [m \in 1 .. Len(fneg) |-> 1 - fneg[m]]

\* rank_loss2 before its sum over dim 1: entry m of the reshaped
\* (-1, neg_sample_size) tensors, -logsigmoid(pos_score - neg_score) * mask.
rank_loss2_terms(pos_score, neg_score, msk) ==
    [m \in 1 .. Len(neg_score) |->
        NegLogSigmoid(pos_score[((m - 1) \div NegSampleSize) + 1] - neg_score[m]) * msk[m]]

\* rank_loss2(...) * pos_g.edata['weight'], entry by entry: the weight of the
\* positive edge of the entry's row.
Weighted(terms, pos, spm) ==
    [m \in 1 .. Len(terms) |-> terms[m] * spm[pos[((m - 1) \div NegSampleSize) + 1]]]

\* GNNRec.forward(conv_g, loss_g, pos_g, neg_g, features, neg_sample_size)
Forward ==
    /\ lpc = "forward"
    /\ IF verify_neg(loss_spm, neg_g, false_neg)
       THEN LET pos_score == score_func(pos_g, emb)
                neg_score == score_func(neg_g, emb)
                terms == Weighted(rank_loss2_terms(pos_score, neg_score, Mask(false_neg)),
                                  pos_g, loss_spm)
            IN  /\ mask' = Mask(false_neg)
                /\ neg_loss' = terms
                /\ loss' = SumSeq(terms)
                /\ lpc' = "step"
                /\ UNCHANGED verify_failed
       ELSE /\ verify_failed' = TRUE
            /\ lpc' = "raised"
            /\ UNCHANGED <<mask, neg_loss, loss>>
    /\ UNCHANGED <<emb, pos_g, neg_g, false_neg>>
    /\ UNCHANGED notLossVars

\* optimizer.zero_grad(); loss.backward(); optimizer.step(): the loop goes on
\* to the next batch of the sampler, the tensors of this batch dropped.
OptimizerStep ==
    /\ lpc = "step"
    /\ lpc' = "sample"
    /\ pos_g' = << >>
    /\ neg_g' = << >>
    /\ false_neg' = << >>
    /\ mask' = << >>
    /\ neg_loss' = << >>
    /\ loss' = 0
    /\ UNCHANGED <<emb, verify_failed>>
    /\ UNCHANGED notLossVars

\* C6: a sampled negative that is an edge of the loss graph adds nothing to
\* the loss, every negative that adds to it is no edge of the loss graph, and
\* the two assertions of verify_neg hold for every sampled negative graph.
C6_FalseNegativesAddNothing ==
    /\ ~verify_failed
    /\ lpc = "step" =>
          /\ \A m \in 1 .. Len(neg_g) :
                /\ false_neg[m] = 1 => neg_loss[m] = 0
                /\ neg_loss[m] # 0 => neg_g[m] \notin GraphEdges(loss_spm)
          /\ loss = SumSeq([m \in 1 .. Len(neg_g) |->
                        IF neg_g[m] \in GraphEdges(loss_spm) THEN 0
                        ELSE NegLogSigmoid(
                                 emb[pos_g[((m - 1) \div NegSampleSize) + 1][1]]
                                     * emb[pos_g[((m - 1) \div NegSampleSize) + 1][2]]
                                 - emb[neg_g[m][1]] * emb[neg_g[m][2]])
                             * loss_spm[pos_g[((m - 1) \div NegSampleSize) + 1]]])

\* forward has run on a batch with a negative that is an edge of the loss
\* graph and a negative that is not.
C6_Witness ==
    /\ lpc = "step"
    /\ \E m \in 1 .. Len(neg_g) : false_neg[m] = 1
    /\ \E m \in 1 .. Len(neg_g) : false_neg[m] = 0 /\ neg_loss[m] # 0

\* C7: the loss GNNRec.forward returns is, for each positive sample with score
\* r and each of its negatives with score r~, (1 - (r - r~))^2, summed. (Both
\* sides in thousandths.)
C7_LossIsSquaredRankingLoss ==
    lpc = "step" =>
        loss = 1000 * SumSeq([m \in 1 .. Len(neg_g) |->
                   LET rp == emb[pos_g[((m - 1) \div NegSampleSize) + 1][1]]
                                 * emb[pos_g[((m - 1) \div NegSampleSize) + 1][2]]
                       rn == emb[neg_g[m][1]] * emb[neg_g[m][2]]
                   IN  (1 - (rp - rn)) * (1 - (rp - rn))])

InitLoss ==
    /\ lpc = "sample"
    /\ emb \in [Items -> EmbVals]
    /\ pos_g = << >>
    /\ neg_g = << >>
    /\ false_neg = << >>
    /\ mask = << >>
    /\ neg_loss = << >>
    /\ loss = 0
    /\ verify_failed = FALSE

(***************************************************************************)
(* Recommendation-fism.ipynb: FISM.forward                                 *)
(***************************************************************************)
\* Estimated ratings are integers in -MaxRating .. MaxRating.
RatingVals == (0 - MaxRating) .. MaxRating

\* len(t) of a tensor: the size of its first dimension.
TensorLen(t) == Len(t)

\* The entries of a 2-D tensor in row-major order.
RECURSIVE Flatten(_)
Flatten(t) == IF t = << >> THEN << >> ELSE Head(t) \o Flatten(Tail(t))

\* t.reshape((-1, cols)) of a 2-D tensor.
Reshape(t, cols) ==
    LET flat == Flatten(t)
    IN  [i \in 1 .. (Len(flat) \div cols) |->
            [j \in 1 .. cols |-> flat[(i - 1) * cols + j]]]

\* neg_sample_size = int(len(r_neg) / len(r))
NegSampleSizeOf(rr, rn) == TensorLen(rn) \div TensorLen(rr)

\* The entries of pos_score - neg_score under broadcasting, pos_score of shape
\* (B,) and neg_score of shape (M, c): c = 1 gives the M x B differences of
\* every negative with every positive, c = B the M x B differences column by
\* column. Each entry is kept with the places of its operands: pos the index
\* into pos_score, neg the row-major index into neg_score.
BroadcastSub(pos_score, neg_score) ==
    LET B == Len(pos_score)
        M == Len(neg_score)
        c == Len(neg_score[1])
    IN  [e \in 1 .. (M * B) |->
            LET i == ((e - 1) \div B) + 1
                j == ((e - 1) % B) + 1
                n == IF c = 1 THEN 1 ELSE j
            IN  [pos |-> j, neg |-> (i - 1) * c + n,
                 diff |-> pos_score[j] - neg_score[i][n]]]

\* rank_loss2(pos_score, neg_score) = -sum(logsigmoid(pos_score - neg_score))
fism_rank_loss2(pos_score, neg_score) ==
    LET d == BroadcastSub(pos_score, neg_score)
    IN  SumSeq([e \in 1 .. Len(d) |-> NegLogSigmoid(d[e].diff)])

\* FISM.forward(I, U, I_neg, I_U, N_U), from the ratings FISMrating.forward
\* returns: r of shape (batch_size,), r_neg of shape (batch_size, n_negs).
FismForward ==
    /\ fpc = "forward"
    /\ \E B \in 1 .. MaxBatch :
       \E rr \in [1 .. B -> RatingVals] :
       \E rn \in [1 .. B -> [1 .. NegSampleSize -> RatingVals]] :
          LET neg_sample_size == NegSampleSizeOf(rr, rn)
              reshaped == Reshape(rn, neg_sample_size)
              d == BroadcastSub(rr, reshaped)
          IN  /\ r' = rr
              /\ r_neg' = rn
              /\ fism_terms' = [e \in 1 .. Len(d) |-> <<d[e].pos, d[e].neg>>]
              /\ fism_loss' = fism_rank_loss2(rr, reshaped)
    /\ fpc' = "step"
    /\ UNCHANGED notFismVars

\* optimizer.zero_grad(); loss.backward(); optimizer.step(): on to the next
\* batch, the tensors of this batch dropped.
FismStep ==
    /\ fpc = "step"
    /\ fpc' = "forward"
    /\ r' = << >>
    /\ r_neg' = << >>
    /\ fism_terms' = << >>
    /\ fism_loss' = 0
    /\ UNCHANGED notFismVars

\* The batch entry whose negative the row-major index m of r_neg belongs to.
OwnerOf(m) == ((m - 1) \div NegSampleSize) + 1

\* C8: FISM.forward compares the rating r[k] of batch entry k only with the
\* ratings r_neg[k, :] of the entry's own negatives: the loss is the sum of
\* exactly batch_size * neg_sample_size terms -logsigmoid(r[k] - r_neg[k, j]).
C8_LossComparesOwnNegativesOnly ==
    fpc = "step" =>
        /\ Len(fism_terms) = Len(r) * NegSampleSize
        /\ \A e \in 1 .. Len(fism_terms) : OwnerOf(fism_terms[e][2]) = fism_terms[e][1]
        /\ fism_loss = SumSeq([m \in 1 .. (Len(r) * NegSampleSize) |->
                           NegLogSigmoid(r[OwnerOf(m)] - Flatten(r_neg)[m])])

InitFism ==
    /\ fpc = "forward"
    /\ r = << >>
    /\ r_neg = << >>
    /\ fism_terms = << >>
    /\ fism_loss = 0

(***************************************************************************)
(* Recommendation.ipynb: knnEvaluate                                       *)
(***************************************************************************)
KnnItems == 0 .. (NumKnnItems - 1)

\* Embeddings are one number per item, in 0 .. MaxKnnEmb.
KnnEmbVals == 0 .. MaxKnnEmb

Sign(x) == IF x > 0 THEN 1 ELSE IF x < 0 THEN 0 - 1 ELSE 0

\* score_fn(data)[i, j]: dot_score is the dot product; cosine_similarity is
\* the dot product of the normalised rows, which for one-number embeddings is
\* the sign of the product (0 for a zero row).
Score(fn, d, i, j) ==
    IF fn = "dot_score" THEN d[i] * d[j] ELSE Sign(d[i] * d[j])

\* scores = score_fn(data) - np.diag(np.ones(data.shape[0]))
Scores(fn, d, i, j) == Score(fn, d, i, j) - (IF i = j THEN 1 ELSE 0)

\* The items j with query_scores[k, j] >= truth_scores[k].
Counted(fn, d, q, t) ==
    { j \in KnnItems : Scores(fn, d, q, j) >= Scores(fn, d, q, t) }

\* The (query, truth) pairs construct_edges yields: two different items.
KnnPairLists ==
    UNION { [1 .. n -> { p \in KnnItems \X KnnItems : p[1] # p[2] }] : n \in 1 .. MaxPairs }

\* knnEvaluate(data, query_eval, item_eval, score_fn)
KnnEvaluate ==
    /\ kpc = "evaluate"
    /\ \E fn \in {"dot_score", "cosine_similarity"} :
       \E d \in [KnnItems -> KnnEmbVals] :
       \E pairs \in KnnPairLists :
          LET counted == [k \in 1 .. Len(pairs) |-> Counted(fn, d, pairs[k][1], pairs[k][2])]
          IN  /\ score_fn' = fn
              /\ knn_data' = d
              /\ query_eval' = QueryOf(pairs)
              /\ item_eval' = TruthOf(pairs)
              /\ knn_counted' = counted
              /\ knn_hits' = Cardinality({ k \in 1 .. Len(pairs) :
                                             Cardinality(counted[k]) < HitsCutoff })
              /\ knn_pairs' = Len(pairs)
    /\ kpc' = "done"
    /\ UNCHANGED notKnnVars

\* knnEvaluate has returned; its locals are gone and the next call may follow
\* (the training loop evaluates after every epoch).
KnnReturn ==
    /\ kpc = "done"
    /\ kpc' = "evaluate"
    /\ score_fn' = "dot_score"
    /\ knn_data' = [i \in KnnItems |-> 0]
    /\ query_eval' = << >>
    /\ item_eval' = << >>
    /\ knn_counted' = << >>
    /\ knn_hits' = 0
    /\ knn_pairs' = 0
    /\ UNCHANGED notKnnVars

\* C9: knnEvaluate removes the query item from the ranking: for every pair the
\* query item is not among the items counted as scoring at least the truth
\* item's score, for the dot product and for the cosine similarity.
C9_QueryItemNeverCounted ==
    kpc = "done" =>
        \A k \in 1 .. knn_pairs : query_eval[k] \notin knn_counted[k]

\* The pairs whose truth item is among the 3 highest-scoring items for the
\* query by score_fn, under the reading least favourable to the truth item
\* (the query item ranks too, a tie ranks above the truth item) ...
CertainTop3 ==
    { k \in 1 .. knn_pairs :
        Cardinality({ j \in KnnItems \ {item_eval[k]} :
            Score(score_fn, knn_data, query_eval[k], j)
                >= Score(score_fn, knn_data, query_eval[k], item_eval[k]) }) < 3 }

\* ... and under the reading most favourable to it (the query item does not
\* rank, a tie ranks below the truth item).
PossibleTop3 ==
    { k \in 1 .. knn_pairs :
        Cardinality({ j \in KnnItems \ {item_eval[k], query_eval[k]} :
            Score(score_fn, knn_data, query_eval[k], j)
                > Score(score_fn, knn_data, query_eval[k], item_eval[k]) }) < 3 }

\* C10: the value knnEvaluate returns (knn_hits / knn_pairs) is the fraction
\* of pairs whose truth item is among the 3 highest-scoring items for the
\* query: under every reading of ties and of the query item's own rank, the
\* number of hits lies between the two counts above.
C10_ReturnsHitsAt3 ==
    kpc = "done" =>
        /\ Cardinality(CertainTop3) <= knn_hits
        /\ knn_hits <= Cardinality(PossibleTop3)

InitKnn ==
    /\ kpc = "evaluate"
    /\ score_fn = "dot_score"
    /\ knn_data = [i \in KnnItems |-> 0]
    /\ query_eval = << >>
    /\ item_eval = << >>
    /\ knn_counted = << >>
    /\ knn_hits = 0
    /\ knn_pairs = 0

(***************************************************************************)
(* Recommendation-fism.ipynb: RecEval                                      *)
(***************************************************************************)
\* torch.unsqueeze(r, 1): shape (B,) to shape (B, 1).
Unsqueeze(t) == [i \in 1 .. Len(t) |-> <<t[i]>>]

\* FISM.est_rating, from the ratings FISMrating.forward returns: r unsqueezed,
\* r_neg reshaped by int(len(r_neg) / len(r)).
est_rating(rr, rn) ==
    [ r |-> Unsqueeze(rr),
      neg_r |-> Reshape(rn, NegSampleSizeOf(rr, rn)) ]

\* torch.sum(neg_r >= r, 1) with r of shape (B, 1) and neg_r of shape (B, n).
CountGeq(rcol, negs) ==
    [u \in 1 .. Len(negs) |->
        Cardinality({ j \in 1 .. Len(negs[u]) : negs[u][j] >= rcol[u][1] })]

\* RecEval(model, user_item_spm, k, users_eval, items_eval, neg_eval)
RecEval ==
    /\ rpc = "evaluate"
    /\ \E k \in 1 .. MaxK :
       \E B \in 1 .. MaxBatch :
       \E rr \in [1 .. B -> RatingVals] :
       \E rn \in [1 .. B -> [1 .. NegSampleSize -> RatingVals]] :
          LET est == est_rating(rr, rn)
              neg_sample_size == NegSampleSizeOf(est.r, est.neg_r)
              neg_r == Reshape(est.neg_r, neg_sample_size)
              counts == CountGeq(est.r, neg_r)
          IN  /\ rec_k' = k
              /\ rec_r' = rr
              /\ rec_neg_r' = rn
              /\ rec_counts' = counts
              /\ rec_hits' = Cardinality({ u \in 1 .. Len(counts) : counts[u] <= k })
    /\ rpc' = "done"
    /\ UNCHANGED notRecVars

\* RecEval has returned; its locals are gone and the next call may follow (the
\* training loop evaluates after every epoch).
RecEvalReturn ==
    /\ rpc = "done"
    /\ rpc' = "evaluate"
    /\ rec_k' = 0
    /\ rec_r' = << >>
    /\ rec_neg_r' = << >>
    /\ rec_counts' = << >>
    /\ rec_hits' = 0
    /\ UNCHANGED notRecVars

\* The evaluated users whose held-out item ranks within the top k of the list
\* of the held-out item and the user's negatives, under the reading least
\* favourable to the held-out item (a tie ranks above it) ...
CertainTopK ==
    { u \in 1 .. Len(rec_r) :
        Cardinality({ j \in 1 .. NegSampleSize : rec_neg_r[u][j] >= rec_r[u] }) < rec_k }

\* ... and under the reading most favourable to it (a tie ranks below it).
PossibleTopK ==
    { u \in 1 .. Len(rec_r) :
        Cardinality({ j \in 1 .. NegSampleSize : rec_neg_r[u][j] > rec_r[u] }) < rec_k }

\* C11: the value RecEval returns (rec_hits / number of evaluated users) is
\* HITS@k, the fraction of evaluated users whose held-out item ranks within
\* the top k of the list made of the held-out item and the user's sampled
\* negatives: under every reading of ties, the number of hits lies between
\* the two counts above.
C11_RecEvalReturnsHitsAtK ==
    rpc = "done" =>
        /\ Cardinality(CertainTopK) <= rec_hits
        /\ rec_hits <= Cardinality(PossibleTopK)

InitRec ==
    /\ rpc = "evaluate"
    /\ rec_k = 0
    /\ rec_r = << >>
    /\ rec_neg_r = << >>
    /\ rec_counts = << >>
    /\ rec_hits = 0

(***************************************************************************)
(* Recommendation-fism.ipynb: RecEvalAll                                   *)
(***************************************************************************)
\* The estimated ratings of the evaluation: a low and a high one.
EvalRatings == {0 - MaxEvalRating, MaxEvalRating}

\* all_user_item_spm (CSR): the training, validation and test pairs, the
\* duplicates summed.
AllUserItemSpm(train, valid, test) ==
    [u \in Users |-> [i \in Items |->
        (IF i \in train[u] THEN 1 ELSE 0)
        + (IF valid[u] = i THEN 1 ELSE 0)
        + (IF test[u] = i THEN 1 ELSE 0)]]

\* users_eval: every user, in order.
UsersEval == [n \in 1 .. NumUsers |-> n - 1]

\* neg_items_eval = np.tile(np.arange(num_items), len(users)).reshape(...)
ItemsSeq == [n \in 1 .. NumItems |-> n - 1]

\* neg_r.reshape((-1, neg_sample_size)) - neighbors * 10
Penalised(neg_r, neighbors, users) ==
    [n \in 1 .. Len(neg_r) |->
        [c \in 1 .. Len(neg_r[n]) |->
            neg_r[n][c] - neighbors[users[n]][ItemsSeq[c]] * PositivePenalty]]

\* The items c with neg_r[n, c] >= r[n].
CountedItems(rcol, neg_r) ==
    [n \in 1 .. Len(neg_r) |->
        { ItemsSeq[c] : c \in { d \in 1 .. Len(neg_r[n]) : neg_r[n][d] >= rcol[n][1] } }]

\* RecEvalAll(model, user_item_spm, k, users_eval, items_eval), called with the
\* validation or the test pairs; the ratings are what FISMrating.forward
\* returns for the held-out items and for every item.
RecEvalAll ==
    /\ apc = "evaluate"
    /\ \E k \in 1 .. MaxK :
       \E items_eval \in {items_valid, items_test} :
       \E rating \in [Users -> [Items -> EvalRatings]] :
          LET users == UsersEval
              neighbors == AllUserItemSpm(all_train, items_valid, items_test)
              rr == [n \in 1 .. Len(users) |-> rating[users[n]][items_eval[users[n]]]]
              rn == [n \in 1 .. Len(users) |->
                        [c \in 1 .. NumItems |-> rating[users[n]][ItemsSeq[c]]]]
              est == est_rating(rr, rn)
              neg_r == Penalised(Reshape(est.neg_r, NumItems), neighbors, users)
              counted == CountedItems(est.r, neg_r)
          IN  /\ all_k' = k
              /\ all_items_eval' = items_eval
              /\ all_rating' = rating
              /\ all_counted' = [u \in Users |-> counted[u + 1]]
              /\ all_hits' = Cardinality({ n \in 1 .. Len(users) :
                                             Cardinality(counted[n]) <= k })
    /\ apc' = "done"
    /\ UNCHANGED <<all_train, items_valid, items_test>>
    /\ UNCHANGED notAllVars

\* RecEvalAll has returned; its locals are gone and the next call may follow.
RecEvalAllReturn ==
    /\ apc = "done"
    /\ apc' = "evaluate"
    /\ all_k' = 0
    /\ all_items_eval' = [u \in Users |-> 0]
    /\ all_rating' = [u \in Users |-> [i \in Items |-> 0]]
    /\ all_counted' = [u \in Users |-> {}]
    /\ all_hits' = 0
    /\ UNCHANGED <<all_train, items_valid, items_test>>
    /\ UNCHANGED notAllVars

\* The items user u interacted with, in training, validation or test.
Interacted(u) == all_train[u] \cup {items_valid[u], items_test[u]}

\* C12: RecEvalAll excludes the positive edges: for every evaluated user no
\* item the user interacted with (training, validation or test) is among the
\* items counted as scoring at least the held-out item's score, whatever the
\* estimated ratings are.
C12_PositivesNeverCounted ==
    apc = "done" =>
        \A u \in Users : all_counted[u] \cap Interacted(u) = {}

\* The data load_data returns: every user has a training set, one validation
\* item and one test item, the three disjoint.
InitAll ==
    /\ apc = "evaluate"
    /\ all_train \in [Users -> SUBSET Items]
    /\ items_valid \in [Users -> Items]
    /\ items_test \in [Users -> Items]
    /\ \A u \in Users : /\ items_valid[u] # items_test[u]
                        /\ items_valid[u] \notin all_train[u]
                        /\ items_test[u] \notin all_train[u]
    /\ all_k = 0
    /\ all_items_eval = [u \in Users |-> 0]
    /\ all_rating = [u \in Users |-> [i \in Items |-> 0]]
    /\ all_counted = [u \in Users |-> {}]
    /\ all_hits = 0

(***************************************************************************)
(* Recommendation-fism.ipynb: the training loop                            *)
(***************************************************************************)
\* np.arange(start, stop, step): start, start + step, ... up to and with stop.
RECURSIVE ArangeToStop(_, _, _)
ArangeToStop(start, stop, step) ==
    IF start > stop THEN << >> ELSE <<start>> \o ArangeToStop(start + step, stop, step)

\* np.arange(start, stop, step): start, start + step, ... below stop.
RECURSIVE Arange(_, _, _)
Arange(start, stop, step) ==
    IF start >= stop THEN << >> ELSE <<start>> \o Arange(start + step, stop, step)

\* np.split(a, points): a[:p1], a[p1:p2], ..., a[pk:], from the 0-based offset
\* from on.
RECURSIVE SplitFrom(_, _, _)
SplitFrom(a, from, points) ==
    IF points = << >> THEN <<SubSeq(a, from + 1, Len(a))>>
    ELSE <<SubSeq(a, from + 1, Head(points))>> \o SplitFrom(a, Head(points), Tail(points))

\* np.random.permutation(n): the edge ids 0 .. n - 1 in any order.
EdgeIdPermutations(n) == { s \in [1 .. n -> 0 .. (n - 1)] : IsInjective(s) }

\* EdgeSampler.__init__: self.batches for the drawn permutation edge_ids.
SamplerBatches(edge_ids, bs) ==
    SplitFrom(edge_ids, 0, Arange(bs, Len(edge_ids), bs))

\* for epoch in range(n_epochs): the next epoch starts with a new
\* EdgeSampler, or the loop ends.
EpochStart ==
    /\ tpc = "for_epoch"
    /\ IF epoch < n_epochs
       THEN /\ \E edge_ids \in EdgeIdPermutations(nnz) :
                  batches' = SamplerBatches(edge_ids, batch_size)
            /\ sampler_idx' = 0
            /\ n_samplers' = n_samplers + 1
            /\ losses' = 0
            /\ tpc' = "next_batch"
       ELSE /\ tpc' = "test"
            /\ UNCHANGED <<batches, sampler_idx, n_samplers, losses>>
    /\ UNCHANGED <<n_epochs, nnz, batch_size, epoch, n_forward, n_zero_grad, n_backward,
                   n_steps, n_valid, n_test>>
    /\ UNCHANGED notTrainVars

\* EdgeSampler.__next__: the next batch, or StopIteration.
NextBatch ==
    /\ tpc = "next_batch"
    /\ IF sampler_idx = Len(batches)
       THEN /\ tpc' = "validate"
            /\ UNCHANGED sampler_idx
       ELSE /\ sampler_idx' = sampler_idx + 1
            /\ tpc' = "forward"
    /\ UNCHANGED <<n_epochs, nnz, batch_size, epoch, batches, losses, n_forward,
                   n_zero_grad, n_backward, n_steps, n_samplers, n_valid, n_test>>
    /\ UNCHANGED notTrainVars

\* loss = model(I, U, I_neg, I_U, N_U)
ModelForward ==
    /\ tpc = "forward"
    /\ n_forward' = n_forward + 1
    /\ tpc' = "zero_grad"
    /\ UNCHANGED <<n_epochs, nnz, batch_size, epoch, batches, sampler_idx, losses,
                   n_zero_grad, n_backward, n_steps, n_samplers, n_valid, n_test>>
    /\ UNCHANGED notTrainVars

\* optimizer.zero_grad()
ZeroGrad ==
    /\ tpc = "zero_grad"
    /\ n_zero_grad' = n_zero_grad + 1
    /\ tpc' = "backward"
    /\ UNCHANGED <<n_epochs, nnz, batch_size, epoch, batches, sampler_idx, losses,
                   n_forward, n_backward, n_steps, n_samplers, n_valid, n_test>>
    /\ UNCHANGED notTrainVars

\* loss.backward()
Backward ==
    /\ tpc = "backward"
    /\ n_backward' = n_backward + 1
    /\ tpc' = "step"
    /\ UNCHANGED <<n_epochs, nnz, batch_size, epoch, batches, sampler_idx, losses,
                   n_forward, n_zero_grad, n_steps, n_samplers, n_valid, n_test>>
    /\ UNCHANGED notTrainVars

\* optimizer.step(); losses.append(loss.detach().item())
TrainStep ==
    /\ tpc = "step"
    /\ n_steps' = n_steps + 1
    /\ losses' = losses + 1
    /\ tpc' = "next_batch"
    /\ UNCHANGED <<n_epochs, nnz, batch_size, epoch, batches, sampler_idx, n_forward,
                   n_zero_grad, n_backward, n_samplers, n_valid, n_test>>
    /\ UNCHANGED notTrainVars

\* hits10_sub = RecEval(...); hits_all = RecEvalAll(...); print; the epoch ends.
Validate ==
    /\ tpc = "validate"
    /\ n_valid' = n_valid + 1
    /\ epoch' = epoch + 1
    /\ tpc' = "for_epoch"
    /\ UNCHANGED <<n_epochs, nnz, batch_size, batches, sampler_idx, losses, n_forward,
                   n_zero_grad, n_backward, n_steps, n_samplers, n_test>>
    /\ UNCHANGED notTrainVars

\* hits_all = RecEvalAll(model, user_item_spm, 20, users_test, items_test)
TestEval ==
    /\ tpc = "test"
    /\ n_test' = n_test + 1
    /\ tpc' = "done"
    /\ UNCHANGED <<n_epochs, nnz, batch_size, epoch, batches, sampler_idx, losses,
                   n_forward, n_zero_grad, n_backward, n_steps, n_samplers, n_valid>>
    /\ UNCHANGED notTrainVars

\* ceil(nnz / batch_size)
BatchesPerEpoch == (nnz + batch_size - 1) \div batch_size

\* The statements inside the body of the epoch loop.
InEpoch == tpc \in {"next_batch", "forward", "zero_grad", "backward", "step", "validate"}

\* C13: every epoch creates a fresh EdgeSampler; for each batch the steps run
\* in the order forward, zero_grad, backward, step, one optimizer step per
\* batch; validation runs only after the last batch of its epoch; the test
\* evaluation runs once, after the last epoch; and the optimizer steps total
\* n_epochs * ceil(nnz / batch_size).
C13_TrainingLoopOrder ==
    /\ n_samplers = epoch + (IF InEpoch THEN 1 ELSE 0)
    /\ n_steps <= n_backward /\ n_backward <= n_zero_grad
    /\ n_zero_grad <= n_forward /\ n_forward <= n_steps + 1
    /\ tpc = "zero_grad" => n_forward = n_zero_grad + 1
    /\ tpc = "backward" => n_zero_grad = n_backward + 1
    /\ tpc = "step" => n_backward = n_steps + 1
    /\ tpc \in {"for_epoch", "next_batch", "validate", "test", "done"} => n_forward = n_steps
    /\ InEpoch => n_forward + (IF tpc = "forward" THEN 1 ELSE 0)
                      = epoch * BatchesPerEpoch + sampler_idx
    /\ n_valid = epoch
    /\ tpc = "validate" => /\ sampler_idx = Len(batches)
                           /\ n_steps = (epoch + 1) * BatchesPerEpoch
    /\ tpc \in {"for_epoch", "test", "done"} => n_steps = epoch * BatchesPerEpoch
    /\ tpc \in {"test", "done"} => epoch = n_epochs
    /\ n_test = (IF tpc = "done" THEN 1 ELSE 0)
    /\ tpc = "done" => n_steps = n_epochs * BatchesPerEpoch

\* The cell has run to its end over two epochs or more whose last batch is
\* shorter than batch_size.
C13_Witness ==
    /\ tpc = "done"
    /\ n_epochs >= 2
    /\ nnz % batch_size # 0
    /\ Len(batches) >= 2
    /\ n_steps = n_epochs * Len(batches)
    /\ n_valid = n_epochs
    /\ n_test = 1

\* The state before the epoch loop: a training matrix with an edge at least.
InitTrain ==
    /\ tpc = "for_epoch"
    /\ n_epochs \in 0 .. MaxEpochs
    /\ nnz \in 1 .. MaxEdges
    /\ batch_size \in 1 .. MaxBatchSize
    /\ epoch = 0
    /\ batches = << >>
    /\ sampler_idx = 0
    /\ losses = 0
    /\ n_forward = 0
    /\ n_zero_grad = 0
    /\ n_backward = 0
    /\ n_steps = 0
    /\ n_samplers = 0
    /\ n_valid = 0
    /\ n_test = 0

(***************************************************************************)
(* The specifications: one per script, the state of the others idle.       *)
(***************************************************************************)
IdleSplit ==
    /\ pc = "idle"
    /\ user_movie_spm = << >>
    /\ orig_user_movie_spm = [u \in Users |-> {}]
    /\ valid_set = NoPick
    /\ test_set = NoPick
    /\ train_map = {}
    /\ valid_map = {}
    /\ test_map = {}
    /\ neg_user = 0
    /\ movie_set = {}
    /\ neg_mat = EmptyNegMat
    /\ neg_valid = EmptyNegMat
    /\ neg_test = EmptyNegMat
    /\ gen_assert_failed = FALSE
    /\ save_assert_failed = FALSE

IdleEdgesButLoss ==
    /\ epc = "idle"
    /\ data = << >>
    /\ test_query = << >>
    /\ test_truth = << >>
    /\ train_query = << >>
    /\ train_truth = << >>
    /\ not_in_train = << >>
    /\ test_query_easy = << >>
    /\ test_truth_easy = << >>
    /\ test_query_hard = << >>
    /\ test_truth_hard = << >>

IdleEdges == IdleEdgesButLoss /\ loss_spm = EmptyLoss

IdleLoss ==
    /\ lpc = "idle"
    /\ emb = [i \in Items |-> 0]
    /\ pos_g = << >>
    /\ neg_g = << >>
    /\ false_neg = << >>
    /\ mask = << >>
    /\ neg_loss = << >>
    /\ loss = 0
    /\ verify_failed = FALSE

IdleFism ==
    /\ fpc = "idle"
    /\ r = << >>
    /\ r_neg = << >>
    /\ fism_terms = << >>
    /\ fism_loss = 0

IdleKnn ==
    /\ kpc = "idle"
    /\ score_fn = "dot_score"
    /\ knn_data = [i \in KnnItems |-> 0]
    /\ query_eval = << >>
    /\ item_eval = << >>
    /\ knn_counted = << >>
    /\ knn_hits = 0
    /\ knn_pairs = 0

IdleRec ==
    /\ rpc = "idle"
    /\ rec_k = 0
    /\ rec_r = << >>
    /\ rec_neg_r = << >>
    /\ rec_counts = << >>
    /\ rec_hits = 0

IdleAll ==
    /\ apc = "idle"
    /\ all_k = 0
    /\ all_train = [u \in Users |-> {}]
    /\ items_valid = [u \in Users |-> 0]
    /\ items_test = [u \in Users |-> 0]
    /\ all_items_eval = [u \in Users |-> 0]
    /\ all_rating = [u \in Users |-> [i \in Items |-> 0]]
    /\ all_counted = [u \in Users |-> {}]
    /\ all_hits = 0

IdleTrain ==
    /\ tpc = "idle"
    /\ n_epochs = 0
    /\ nnz = 0
    /\ batch_size = 0
    /\ epoch = 0
    /\ batches = << >>
    /\ sampler_idx = 0
    /\ losses = 0
    /\ n_forward = 0
    /\ n_zero_grad = 0
    /\ n_backward = 0
    /\ n_steps = 0
    /\ n_samplers = 0
    /\ n_valid = 0
    /\ n_test = 0

\* The evaluation and training state of Recommendation-fism.ipynb, not run.
IdleFismEval == IdleRec /\ IdleAll /\ IdleTrain

\* process_movielens.ipynb, from the loaded ratings to the saved negatives.
SplitInit == InitSplit /\ IdleEdges /\ IdleLoss /\ IdleFism /\ IdleKnn /\ IdleFismEval

SplitNext ==
    \/ PickTest
    \/ SaveSplit
    \/ GenNegDraw
    \/ GenNegReturn
    \/ SaveNeg

SpecSplit == SplitInit /\ [][SplitNext]_vars

\* The two calls of gen_neg_set of process_movielens.ipynb.
NegInit == InitNeg /\ IdleEdges /\ IdleLoss /\ IdleFism /\ IdleKnn /\ IdleFismEval

NegNext ==
    \/ GenNegDraw
    \/ GenNegReturn

SpecNeg == NegInit /\ [][NegNext]_vars

\* Recommendation.ipynb, from the loaded sessions to the easy/hard split.
EdgesInit == InitEdges /\ IdleSplit /\ IdleLoss /\ IdleFism /\ IdleKnn /\ IdleFismEval

EdgesNext ==
    \/ ConstructTestEdges
    \/ ConstructTrainEdges
    \/ SplitEasyHard

SpecEdges == EdgesInit /\ [][EdgesNext]_vars

\* The training loop body of Recommendation.ipynb on a loss graph.
LossInit ==
    /\ InitLoss
    /\ IdleEdgesButLoss
    /\ loss_spm \in LossGraphs
    /\ IdleSplit
    /\ IdleFism
    /\ IdleKnn
    /\ IdleFismEval

LossNext ==
    \/ SampleBatch
    \/ Forward
    \/ OptimizerStep

SpecLoss == LossInit /\ [][LossNext]_vars

\* The training loop body of Recommendation-fism.ipynb.
FismInit == InitFism /\ IdleSplit /\ IdleEdges /\ IdleLoss /\ IdleKnn /\ IdleFismEval

FismNext ==
    \/ FismForward
    \/ FismStep

SpecFism == FismInit /\ [][FismNext]_vars

\* The calls of knnEvaluate of Recommendation.ipynb.
KnnInit == InitKnn /\ IdleSplit /\ IdleEdges /\ IdleLoss /\ IdleFism /\ IdleFismEval

KnnNext ==
    \/ KnnEvaluate
    \/ KnnReturn

SpecKnn == KnnInit /\ [][KnnNext]_vars

\* The calls of RecEval of Recommendation-fism.ipynb.
RecInit ==
    /\ InitRec
    /\ IdleSplit
    /\ IdleEdges
    /\ IdleLoss
    /\ IdleFism
    /\ IdleKnn
    /\ IdleAll
    /\ IdleTrain

RecNext ==
    \/ RecEval
    \/ RecEvalReturn

SpecRec == RecInit /\ [][RecNext]_vars

\* The calls of RecEvalAll of Recommendation-fism.ipynb.
AllInit ==
    /\ InitAll
    /\ IdleSplit
    /\ IdleEdges
    /\ IdleLoss
    /\ IdleFism
    /\ IdleKnn
    /\ IdleRec
    /\ IdleTrain

AllNext ==
    \/ RecEvalAll
    \/ RecEvalAllReturn

SpecAll == AllInit /\ [][AllNext]_vars

\* The training cell of Recommendation-fism.ipynb.
TrainInit ==
    /\ InitTrain
    /\ IdleSplit
    /\ IdleEdges
    /\ IdleLoss
    /\ IdleFism
    /\ IdleKnn
    /\ IdleRec
    /\ IdleAll

TrainNext ==
    \/ EpochStart
    \/ NextBatch
    \/ ModelForward
    \/ ZeroGrad
    \/ Backward
    \/ TrainStep
    \/ Validate
    \/ TestEval

SpecTrain == TrainInit /\ [][TrainNext]_vars

====
